---- MODULE Spec2Model ----
(***************************************************************************)
(* A model of package limiter (src/limiter/limiter.go): New validates the  *)
(* options, Run starts `concurrency` worker goroutines that loop through   *)
(* the rate gate, the query-limit check, the two counter increments and    *)
(* the callback, and the accessors read the run's state.                   *)
(*                                                                         *)
(* Time is discrete: one tick is one second, `elapsed` is the monotonic    *)
(* clock minus limiter.start.  The rate gate (golang.org/x/time/rate, a    *)
(* library outside the package) is modelled by its behaviour at the call   *)
(* site: a token bucket of burst 1, or an infinite rate.                   *)
(***************************************************************************)
EXTENDS Integers, FiniteSets, Sequences, TLC

\* ------------------------------------------------------------------ bounds
MaxConc == 2
MaxDuration == 1

\* The counters are []uint32 and the limit is a uint32: unsigned arithmetic
\* modulo 2^32.  The model keeps the arithmetic and scales the width down to
\* two bits, so that a counter's wrap-around is within reach.
UintMod == 4

MaxLimit == UintMod - 1
MaxTime == MaxDuration
\* the invocations are counted up to the counters' width: a count of CallsCap
\* stands for that many or more
CallsCap == UintMod
\* no reservation lies further ahead than one second per worker
Horizon == MaxConc + 1

QPSValues == {0, 1}
Durations == (-1)..MaxDuration
\* limiter.callback: nil, a callback that returns nil or an error, a callback
\* that returns the same error on every invocation
CallbackKinds == {"nil", "mixed", "failing"}

\* ------------------------------------------------------------------ errors
\* An error is an interface value: a type word and a data word.
NilError == [typ |-> "nil", val |-> "nil"]
Canceled == [typ |-> "errorString", val |-> "context canceled"]
DeadlineExceeded == [typ |-> "deadlineExceededError", val |-> "context deadline exceeded"]
WouldExceed == [typ |-> "errorString", val |-> "would exceed context deadline"]
BurstError == [typ |-> "errorString", val |-> "exceeds limiter's burst"]
CbErr1 == [typ |-> "cbT1", val |-> "cb failure 1"]
CbErr2 == [typ |-> "cbT2", val |-> "cb failure 2"]

ErrLimit == "limit value must be greater than concurrency value"
ErrSet == "set either limit or duration value"
NoLimiter == [nil |-> TRUE]

VARIABLES
  opts,            \* the Options New was called with
  limiter,         \* the limiter New returned (its configuration fields), or NoLimiter
  newErr,          \* the error New returned, "nil" for none
  runpc,           \* where Run is: new, rejected, ready, running, finishing, returned
  pc,              \* each worker goroutine's position
  werr,            \* each worker's local err
  wake,            \* ticks until a sleeping worker's gate timer fires
  counters,        \* limiter.counters
  wg,              \* limiter.wg
  ctxErr,          \* limiter.limContext.Err(): nil, canceled, deadline
  slot,            \* limiter.lim: ticks until the bucket holds a token again
  elapsed,         \* the clock, since limiter.start
  grants,          \* history: the tokens the gate has granted for now, now + 1, ...
  since,           \* limiter.since
  done,            \* limiter.done
  lastError,       \* limiter.lastError
  isDeadline, isCanceled, isQueryLimit, isRateError, isCallbackError,
  runResult,       \* what Run returned
  cancelAt,        \* history: where the workers were when the context was canceled
  lastSince,       \* observer: the last value Since() returned, -1 before any
  calls            \* observer: the callback invocations of each worker, up to CallsCap

cfgVars == <<opts, limiter, newErr>>
flagVars == <<isDeadline, isCanceled, isQueryLimit, isRateError, isCallbackError>>
workerVars == <<pc, werr, wake>>
timeVars == <<elapsed, slot, grants>>
endVars == <<since, done, runResult>>
vars == <<cfgVars, runpc, workerVars, counters, wg, ctxErr, timeVars, endVars,
          lastError, flagVars, cancelAt, lastSince, calls>>

Max(a, b) == IF a >= b THEN a ELSE b

OptionsSet ==
  [Concurrency : 0..MaxConc, Limit : 0..MaxLimit, QPS : QPSValues,
   Duration : Durations, Callback : CallbackKinds, SignalHandler : BOOLEAN]

Workers == DOMAIN pc

\* --------------------------------------------------------------------- New
NewResultLoose(o) ==
  IF o.Limit > 0 /\ o.Limit + 1 < o.Concurrency
    THEN [limiter |-> NoLimiter, err |-> ErrLimit]
    ELSE IF o.Limit = 0 /\ o.Duration = 0
      THEN [limiter |-> NoLimiter, err |-> ErrSet]
      ELSE [limiter |-> o, err |-> "nil"]

NewResult(o) ==
  IF o.Limit > 0 /\ o.Limit < o.Concurrency
    THEN [limiter |-> NoLimiter, err |-> ErrLimit]
    ELSE IF o.Limit = 0 /\ o.Duration = 0
      THEN [limiter |-> NoLimiter, err |-> ErrSet]
      ELSE [limiter |-> o, err |-> "nil"]

Init ==
  /\ opts = NoLimiter
  /\ limiter = NoLimiter
  /\ newErr = "nil"
  /\ runpc = "new"
  /\ pc = << >>
  /\ werr = << >>
  /\ wake = << >>
  /\ counters = << >>
  /\ wg = 0
  /\ ctxErr = "nil"
  /\ slot = 0
  /\ elapsed = 0
  /\ grants = [k \in 0..Horizon |-> 0]
  /\ since = 0
  /\ done = FALSE
  /\ lastError = NilError
  /\ isDeadline = FALSE
  /\ isCanceled = FALSE
  /\ isQueryLimit = FALSE
  /\ isRateError = FALSE
  /\ isCallbackError = FALSE
  /\ runResult = NilError
  /\ cancelAt = "none"
  /\ lastSince = -1
  /\ calls = << >>

\* New(o), for the options of the set S
NewFrom(S) ==
  /\ runpc = "new"
  /\ \E o \in S :
       /\ opts' = o
       /\ limiter' = NewResult(o).limiter
       /\ newErr' = NewResult(o).err
       /\ runpc' = IF NewResult(o).err = "nil" THEN "ready" ELSE "rejected"
  /\ UNCHANGED <<workerVars, counters, wg, ctxErr, timeVars, endVars, lastError,
                 flagVars, cancelAt, lastSince, calls>>

New == NewFrom(OptionsSet)

\* ------------------------------------------------------------- Run, start
\* Run up to the concurrency loop: the context, wg.Add, start, the gate, the
\* counters, and one goroutine per group id, each at the top of its loop.
RunStart ==
  /\ runpc = "ready"
  /\ runpc' = "running"
  /\ ctxErr' = "nil"
  /\ wg' = limiter.Concurrency
  /\ elapsed' = 0
  /\ slot' = 0
  /\ grants' = [k \in 0..Horizon |-> 0]
  /\ counters' = [i \in 0..limiter.Concurrency |-> 0]
  /\ pc' = [i \in 1..limiter.Concurrency |-> "wait"]
  /\ werr' = [i \in 1..limiter.Concurrency |-> NilError]
  /\ wake' = [i \in 1..limiter.Concurrency |-> 0]
  /\ calls' = [i \in 1..limiter.Concurrency |-> 0]
  /\ UNCHANGED <<cfgVars, endVars, lastError, flagVars, cancelAt, lastSince>>

\* ------------------------------------------------------------ the context
HasDeadline == limiter.Duration > 0

\* context.WithTimeout: the context is done once the duration has elapsed
DeadlineReached(t) == HasDeadline /\ t >= limiter.Duration

\* ticks left until the context's deadline
Remaining == limiter.Duration - elapsed

CtxErrorAlwaysDeadline == DeadlineExceeded

\* limContext.Err()
CtxError == IF ctxErr = "deadline" THEN DeadlineExceeded ELSE Canceled

\* no worker has entered its first gate wait / has come out of it
NoWaitEntered == \A i \in Workers : pc[i] = "wait" /\ counters[i] = 0
NoWaitCompleted == \A i \in Workers : pc[i] \in {"wait", "admit", "sleep"} /\ counters[i] = 0

CancelPhase ==
  IF NoWaitEntered THEN "beforeEnter"
  ELSE IF NoWaitCompleted THEN "inFlight" ELSE "late"

\* limiter.limCancelFunc(), called by whoever holds CancelFunc()
CancelFunc ==
  /\ runpc \in {"running", "finishing"}
  /\ ctxErr = "nil"
  /\ ctxErr' = "canceled"
  /\ cancelAt' = CancelPhase
  /\ UNCHANGED <<cfgVars, runpc, workerVars, counters, wg, timeVars, endVars,
                 lastError, flagVars, lastSince, calls>>

\* SIGINT or SIGTERM arrives and the handler goroutine cancels the context
SignalHandler ==
  /\ runpc \in {"running", "finishing"}
  /\ limiter.SignalHandler
  /\ ctxErr = "nil"
  /\ ctxErr' = "canceled"
  /\ cancelAt' = CancelPhase
  /\ UNCHANGED <<cfgVars, runpc, workerVars, counters, wg, timeVars, endVars,
                 lastError, flagVars, lastSince, calls>>

\* ------------------------------------------------------------------- time
\* some worker sleeps in the gate on a timer that has not fired
TimePending == \E i \in Workers : pc[i] = "sleep" /\ wake[i] > 0

\* One second passes: the bucket refills, the timers run down, and the
\* context's deadline timer fires when the duration has elapsed.  The clock's
\* reading is kept up to MaxTime (no deadline is later); past it the seconds
\* still pass for the gate and its timers.
Tick ==
  /\ runpc \in {"running", "finishing", "returned"}
  /\ elapsed < MaxTime \/ TimePending
  /\ elapsed' = IF elapsed < MaxTime THEN elapsed + 1 ELSE elapsed
  /\ slot' = Max(0, slot - 1)
  /\ grants' = [k \in 0..Horizon |-> IF k < Horizon THEN grants[k + 1] ELSE 0]
  /\ wake' = [i \in Workers |-> Max(0, wake[i] - 1)]
  /\ ctxErr' = IF ctxErr = "nil" /\ DeadlineReached(elapsed + 1) THEN "deadline" ELSE ctxErr
  /\ UNCHANGED <<cfgVars, runpc, pc, werr, counters, wg, endVars, lastError,
                 flagVars, cancelAt, lastSince, calls>>

\* --------------------------------------------------------------- the gate
\* rate.NewLimiter(rate.Limit(qps), 1): one token every 1/qps seconds
Interval == 1 \div limiter.QPS

NextSlotKept == slot

\* the bucket after a reservation: the next token is one interval later
NextSlot == slot + Interval

\* AtomicAdd on a uint32
AddUint32(x) == (x + 1) % UintMod

\* lim.Wait(limContext), entered.  The gate checks the context, then reserves
\* a token; a reservation that would outlast the context's deadline fails; a
\* token available now returns without a timer.  The gate is a library outside
\* the package: that it may fail with an error of its own, neither of the
\* context's (the case of lines 138-141), is kept as an outcome of any call.
WaitEnter(i) ==
  /\ pc[i] = "wait"
  /\ \/ /\ pc' = [pc EXCEPT ![i] = "gateFail"]
        /\ werr' = [werr EXCEPT ![i] = BurstError]
        /\ UNCHANGED <<slot, grants, wake>>
     \/ /\ ctxErr # "nil"
        /\ pc' = [pc EXCEPT ![i] = "gateFail"]
        /\ werr' = [werr EXCEPT ![i] = CtxError]
        /\ UNCHANGED <<slot, grants, wake>>
     \/ /\ ctxErr = "nil"
        /\ limiter.QPS > 0 /\ HasDeadline /\ slot > Remaining
        /\ pc' = [pc EXCEPT ![i] = "gateFail"]
        /\ werr' = [werr EXCEPT ![i] = WouldExceed]
        /\ UNCHANGED <<slot, grants, wake>>
     \/ /\ ctxErr = "nil"
        /\ limiter.QPS = 0
        /\ pc' = [pc EXCEPT ![i] = "admit"]
        /\ UNCHANGED <<slot, grants, wake, werr>>
     \/ /\ ctxErr = "nil"
        /\ limiter.QPS > 0
        /\ HasDeadline => slot <= Remaining
        /\ pc' = [pc EXCEPT ![i] = IF slot = 0 THEN "admit" ELSE "sleep"]
        /\ wake' = [wake EXCEPT ![i] = slot]
        /\ grants' = [grants EXCEPT ![slot] = @ + 1]
        /\ slot' = NextSlot
        /\ UNCHANGED werr
  /\ UNCHANGED <<cfgVars, runpc, counters, wg, ctxErr, elapsed, endVars, lastError,
                 flagVars, cancelAt, lastSince, calls>>

\* the context is done while the worker sleeps on the gate's timer
WaitAbort(i) ==
  /\ pc[i] = "sleep"
  /\ ctxErr # "nil"
  /\ pc' = [pc EXCEPT ![i] = "gateFail"]
  /\ werr' = [werr EXCEPT ![i] = CtxError]
  /\ UNCHANGED <<cfgVars, runpc, wake, counters, wg, ctxErr, timeVars, endVars,
                 lastError, flagVars, cancelAt, lastSince, calls>>

\* the query limit check: limit > 0 && atomic.LoadUint32(&counters[0]) >= limit
QueryLimitReachedLate(c) == limiter.Limit > 0 /\ c > limiter.Limit

QueryLimitReached(c) == limiter.Limit > 0 /\ c >= limiter.Limit

\* lim.Wait returns nil and the worker checks the query limit
WaitReturn(i) ==
  /\ pc[i] \in {"admit", "sleep"}
  /\ wake[i] = 0
  /\ pc' = [pc EXCEPT ![i] = IF QueryLimitReached(counters[0]) THEN "limitHit" ELSE "incOwn"]
  /\ UNCHANGED <<cfgVars, runpc, werr, wake, counters, wg, ctxErr, timeVars, endVars,
                 lastError, flagVars, cancelAt, lastSince, calls>>

\* ------------------------------------------------- a failed gate wait
IsDeadlineErrorExact(e) == e = DeadlineExceeded

\* err == context.DeadlineExceeded || strings.Contains(err.Error(), "context deadline")
IsDeadlineError(e) == e = DeadlineExceeded \/ e \in {DeadlineExceeded, WouldExceed}

\* the flag the worker sets for the error of its gate wait
HandleWaitError(i) ==
  /\ pc[i] = "gateFail"
  /\ \/ /\ IsDeadlineError(werr[i])
        /\ isDeadline' = TRUE
        /\ pc' = [pc EXCEPT ![i] = "wgDone"]
        /\ UNCHANGED <<isCanceled, isRateError>>
     \/ /\ ~IsDeadlineError(werr[i]) /\ werr[i] = Canceled
        /\ isCanceled' = TRUE
        /\ pc' = [pc EXCEPT ![i] = "wgDone"]
        /\ UNCHANGED <<isDeadline, isRateError>>
     \/ /\ ~IsDeadlineError(werr[i]) /\ werr[i] # Canceled
        /\ isRateError' = TRUE
        /\ pc' = [pc EXCEPT ![i] = "errType"]
        /\ UNCHANGED <<isDeadline, isCanceled>>
  /\ UNCHANGED <<cfgVars, runpc, werr, wake, counters, wg, ctxErr, timeVars, endVars,
                 lastError, isQueryLimit, isCallbackError, cancelAt, lastSince, calls>>

\* limiter.lastError = err is an unsynchronised store of an interface value:
\* two words, the type and the data, each stored on its own.
WriteErrType(i) ==
  /\ pc[i] = "errType"
  /\ lastError' = [lastError EXCEPT !.typ = werr[i].typ]
  /\ pc' = [pc EXCEPT ![i] = "errData"]
  /\ UNCHANGED <<cfgVars, runpc, werr, wake, counters, wg, ctxErr, timeVars, endVars,
                 flagVars, cancelAt, lastSince, calls>>

WriteErrData(i) ==
  /\ pc[i] = "errData"
  /\ lastError' = [lastError EXCEPT !.val = werr[i].val]
  /\ pc' = [pc EXCEPT ![i] = "wgDone"]
  /\ UNCHANGED <<cfgVars, runpc, werr, wake, counters, wg, ctxErr, timeVars, endVars,
                 flagVars, cancelAt, lastSince, calls>>

\* ------------------------------------------------------- the query limit
SetQueryLimitNoReturn(i) ==
  /\ pc[i] = "limitHit"
  /\ isQueryLimit' = TRUE
  /\ pc' = [pc EXCEPT ![i] = "incOwn"]
  /\ UNCHANGED <<cfgVars, runpc, werr, wake, counters, wg, ctxErr, timeVars, endVars,
                 lastError, isDeadline, isCanceled, isRateError, isCallbackError,
                 cancelAt, lastSince, calls>>

SetQueryLimitNoFlag(i) ==
  /\ pc[i] = "limitHit"
  /\ pc' = [pc EXCEPT ![i] = "wgDone"]
  /\ UNCHANGED <<cfgVars, runpc, werr, wake, counters, wg, ctxErr, timeVars, endVars,
                 lastError, flagVars, cancelAt, lastSince, calls>>

\* limiter.isQueryLimit = true, on the way to wg.Done() and return
SetQueryLimit(i) ==
  /\ pc[i] = "limitHit"
  /\ isQueryLimit' = TRUE
  /\ pc' = [pc EXCEPT ![i] = "wgDone"]
  /\ UNCHANGED <<cfgVars, runpc, werr, wake, counters, wg, ctxErr, timeVars, endVars,
                 lastError, isDeadline, isCanceled, isRateError, isCallbackError,
                 cancelAt, lastSince, calls>>

\* ----------------------------------------------------------- the counters
\* atomic.AddUint32(&limiter.counters[i], 1)
IncOwn(i) ==
  /\ pc[i] = "incOwn"
  /\ counters' = [counters EXCEPT ![i] = AddUint32(@)]
  /\ pc' = [pc EXCEPT ![i] = "incTotal"]
  /\ UNCHANGED <<cfgVars, runpc, werr, wake, wg, ctxErr, timeVars, endVars, lastError,
                 flagVars, cancelAt, lastSince, calls>>

IncTotalLost(i) ==
  /\ pc[i] = "incTotal"
  /\ pc' = [pc EXCEPT ![i] = IF limiter.Callback = "nil" THEN "wait" ELSE "callback"]
  /\ UNCHANGED <<cfgVars, runpc, werr, wake, counters, wg, ctxErr, timeVars, endVars,
                 lastError, flagVars, cancelAt, lastSince, calls>>

\* atomic.AddUint32(&limiter.counters[0], 1), then the callback if there is one
IncTotal(i) ==
  /\ pc[i] = "incTotal"
  /\ counters' = [counters EXCEPT ![0] = AddUint32(@)]
  /\ pc' = [pc EXCEPT ![i] = IF limiter.Callback = "nil" THEN "wait" ELSE "callback"]
  /\ UNCHANGED <<cfgVars, runpc, werr, wake, wg, ctxErr, timeVars, endVars, lastError,
                 flagVars, cancelAt, lastSince, calls>>

\* ----------------------------------------------------------- the callback
\* what limiter.callback(cbp) may return
CallbackResults ==
  IF limiter.Callback = "failing" THEN {CbErr1} ELSE {NilError, CbErr1, CbErr2}

Callback(i) ==
  /\ pc[i] = "callback"
  /\ \E r \in CallbackResults :
       /\ werr' = [werr EXCEPT ![i] = r]
       /\ pc' = [pc EXCEPT ![i] = IF r = NilError THEN "wait" ELSE "cbFail"]
  /\ UNCHANGED <<cfgVars, runpc, wake, counters, wg, ctxErr, timeVars, endVars,
                 lastError, flagVars, cancelAt, lastSince, calls>>

\* the same, with the invocation counted by an observer
CallbackCounted(i) ==
  /\ pc[i] = "callback"
  /\ \E r \in CallbackResults :
       /\ werr' = [werr EXCEPT ![i] = r]
       /\ pc' = [pc EXCEPT ![i] = IF r = NilError THEN "wait" ELSE "cbFail"]
  /\ calls' = [calls EXCEPT ![i] = IF @ < CallsCap THEN @ + 1 ELSE @]
  /\ UNCHANGED <<cfgVars, runpc, wake, counters, wg, ctxErr, timeVars, endVars,
                 lastError, flagVars, cancelAt, lastSince>>

SetCallbackErrorNoBreak(i) ==
  /\ pc[i] = "cbFail"
  /\ isCallbackError' = TRUE
  /\ lastError' = werr[i]
  /\ pc' = [pc EXCEPT ![i] = "wait"]
  /\ UNCHANGED <<cfgVars, runpc, werr, wake, counters, wg, ctxErr, timeVars, endVars,
                 isDeadline, isCanceled, isQueryLimit, isRateError, cancelAt, lastSince, calls>>

SetCallbackErrorCancels(i) ==
  /\ pc[i] = "cbFail"
  /\ isCallbackError' = TRUE
  /\ ctxErr' = IF ctxErr = "nil" THEN "canceled" ELSE ctxErr
  /\ pc' = [pc EXCEPT ![i] = "errType"]
  /\ UNCHANGED <<cfgVars, runpc, werr, wake, counters, wg, timeVars, endVars,
                 lastError, isDeadline, isCanceled, isQueryLimit, isRateError,
                 cancelAt, lastSince, calls>>

\* limiter.isCallbackError = true, on the way to limiter.lastError = err
SetCallbackError(i) ==
  /\ pc[i] = "cbFail"
  /\ isCallbackError' = TRUE
  /\ pc' = [pc EXCEPT ![i] = "errType"]
  /\ UNCHANGED <<cfgVars, runpc, werr, wake, counters, wg, ctxErr, timeVars, endVars,
                 lastError, isDeadline, isCanceled, isQueryLimit, isRateError,
                 cancelAt, lastSince, calls>>

WgDoneMissing(i) ==
  /\ pc[i] = "wgDone"
  /\ pc' = [pc EXCEPT ![i] = "exited"]
  /\ UNCHANGED <<cfgVars, runpc, werr, wake, counters, wg, ctxErr, timeVars, endVars,
                 lastError, flagVars, cancelAt, lastSince, calls>>

\* limiter.wg.Done(), and the goroutine leaves its loop
WgDone(i) ==
  /\ pc[i] = "wgDone"
  /\ wg' = wg - 1
  /\ pc' = [pc EXCEPT ![i] = "exited"]
  /\ UNCHANGED <<cfgVars, runpc, werr, wake, counters, ctxErr, timeVars, endVars,
                 lastError, flagVars, cancelAt, lastSince, calls>>

\* --------------------------------------------------------------- Run, end
\* what wg.Wait() waits for
WaitGroupOpenEarly == wg <= 1

WaitGroupOpen == wg = 0

\* limiter.wg.Wait() returns; limiter.since = time.Since(limiter.start)
RunWait ==
  /\ runpc = "running"
  /\ WaitGroupOpen
  /\ since' = elapsed
  /\ runpc' = "finishing"
  /\ UNCHANGED <<cfgVars, workerVars, counters, wg, ctxErr, timeVars, done, runResult,
                 lastError, flagVars, cancelAt, lastSince, calls>>

\* limiter.done = true; return limiter.lastError; the deferred limCancelFunc()
RunReturn ==
  /\ runpc = "finishing"
  /\ done' = TRUE
  /\ runResult' = lastError
  /\ ctxErr' = IF ctxErr = "nil" THEN "canceled" ELSE ctxErr
  /\ runpc' = "returned"
  /\ UNCHANGED <<cfgVars, workerVars, counters, wg, timeVars, since, lastError,
                 flagVars, cancelAt, lastSince, calls>>

\* -------------------------------------------------------------- accessors
\* Limiter.Since()
Since == IF done THEN since ELSE elapsed

\* len(limiter.counters): the slice is indexed from 0
LenCounters == Cardinality(DOMAIN counters)

\* Limiter.NumOfQueries()
NumOfQueries == counters[0]

\* Limiter.NumOfQueriesByGroupID(id)
NumOfQueriesByGroupID(id) ==
  IF id > 0 /\ id < LenCounters THEN counters[id] ELSE 0

\* a goroutine beside Run reads Since()
ReadSince ==
  /\ runpc \in {"running", "finishing", "returned"}
  /\ lastSince' = Since
  /\ UNCHANGED <<cfgVars, runpc, workerVars, counters, wg, ctxErr, timeVars, endVars,
                 lastError, flagVars, cancelAt, calls>>

\* ---------------------------------------------------------- specification
\* one step of the goroutine of group id i
WorkerStep(i) ==
  \/ WaitEnter(i)
  \/ WaitAbort(i)
  \/ WaitReturn(i)
  \/ HandleWaitError(i)
  \/ WriteErrType(i)
  \/ WriteErrData(i)
  \/ SetQueryLimit(i)
  \/ IncOwn(i)
  \/ IncTotal(i)
  \/ Callback(i)
  \/ SetCallbackError(i)
  \/ WgDone(i)

Next ==
  \/ New
  \/ RunStart
  \/ CancelFunc
  \/ SignalHandler
  \/ Tick
  \/ \E i \in Workers : WaitEnter(i)
  \/ \E i \in Workers : WaitAbort(i)
  \/ \E i \in Workers : WaitReturn(i)
  \/ \E i \in Workers : HandleWaitError(i)
  \/ \E i \in Workers : WriteErrType(i)
  \/ \E i \in Workers : WriteErrData(i)
  \/ \E i \in Workers : SetQueryLimit(i)
  \/ \E i \in Workers : IncOwn(i)
  \/ \E i \in Workers : IncTotal(i)
  \/ \E i \in Workers : Callback(i)
  \/ \E i \in Workers : SetCallbackError(i)
  \/ \E i \in Workers : WgDone(i)
  \/ RunWait
  \/ RunReturn

Spec == Init /\ [][Next]_vars

\* New alone, and the start of Run on what it returned.
NextNew == New \/ RunStart

NewSpec == Init /\ [][NextNew]_vars

\* The goroutines are scheduled fairly, the clock runs, and Run goes on when
\* it can.
Worker(i) == i \in Workers /\ WorkerStep(i)

\* The run left to itself: no signal handler is installed and nobody calls
\* the cancel function.
NewUnattended == NewFrom({o \in OptionsSet : ~o.SignalHandler})

NextUnattended ==
  \/ NewUnattended
  \/ RunStart
  \/ Tick
  \/ \E i \in Workers : WaitEnter(i)
  \/ \E i \in Workers : WaitAbort(i)
  \/ \E i \in Workers : WaitReturn(i)
  \/ \E i \in Workers : HandleWaitError(i)
  \/ \E i \in Workers : WriteErrType(i)
  \/ \E i \in Workers : WriteErrData(i)
  \/ \E i \in Workers : SetQueryLimit(i)
  \/ \E i \in Workers : IncOwn(i)
  \/ \E i \in Workers : IncTotal(i)
  \/ \E i \in Workers : Callback(i)
  \/ \E i \in Workers : SetCallbackError(i)
  \/ \E i \in Workers : WgDone(i)
  \/ RunWait
  \/ RunReturn

FairSpec ==
  /\ Init /\ [][NextUnattended]_vars
  /\ WF_vars(Tick)
  /\ \A i \in 1..MaxConc : WF_vars(Worker(i))
  /\ WF_vars(RunWait)
  /\ WF_vars(RunReturn)

\* The run left to itself, with its configured callback's invocations counted.
NewWithCallback == NewFrom({o \in OptionsSet : ~o.SignalHandler /\ o.Callback # "nil"})

NextCounted ==
  \/ NewWithCallback
  \/ RunStart
  \/ Tick
  \/ \E i \in Workers : WaitEnter(i)
  \/ \E i \in Workers : WaitAbort(i)
  \/ \E i \in Workers : WaitReturn(i)
  \/ \E i \in Workers : HandleWaitError(i)
  \/ \E i \in Workers : WriteErrType(i)
  \/ \E i \in Workers : WriteErrData(i)
  \/ \E i \in Workers : SetQueryLimit(i)
  \/ \E i \in Workers : IncOwn(i)
  \/ \E i \in Workers : IncTotal(i)
  \/ \E i \in Workers : CallbackCounted(i)
  \/ \E i \in Workers : SetCallbackError(i)
  \/ \E i \in Workers : WgDone(i)
  \/ RunWait
  \/ RunReturn

CountSpec == Init /\ [][NextCounted]_vars

\* The run left to itself, with a goroutine beside it that reads Since().
NextSince == NextUnattended \/ ReadSince

SinceSpec == Init /\ [][NextSince]_vars

\* ------------------------------------------------------ unsynchronised use
\* The counters are read and written with sync/atomic only.  The flags and
\* lastError are plain fields: what a worker's next step stores to them ...
PlainWrites(i) ==
  IF pc[i] = "gateFail"
    THEN IF IsDeadlineError(werr[i]) THEN {"isDeadline"}
         ELSE IF werr[i] = Canceled THEN {"isCanceled"} ELSE {"isRateError"}
  ELSE IF pc[i] = "limitHit" THEN {"isQueryLimit"}
  ELSE IF pc[i] = "cbFail" THEN {"isCallbackError"}
  ELSE IF pc[i] \in {"errType", "errData"} THEN {"lastError"}
  ELSE {}

\* ... and what a worker inside the callback may load through the accessors
\* LastError, IsDeadline, IsCanceled, IsQueryLimit, IsRateError, IsCallbackError
PlainReads(i) ==
  IF pc[i] = "callback"
    THEN {"isDeadline", "isCanceled", "isQueryLimit", "isRateError", "isCallbackError",
          "lastError"}
    ELSE {}

Flags == {"isDeadline", "isCanceled", "isQueryLimit", "isRateError", "isCallbackError"}

\* ------------------------------------------------------------------ helpers
IsNil(e) == e.typ = "nil"

Started == runpc \in {"running", "finishing", "returned"}

AllExited == \A i \in Workers : pc[i] = "exited"

RECURSIVE SumTo(_, _)
SumTo(c, n) == IF n = 0 THEN 0 ELSE c[n] + SumTo(c, n - 1)

\* the sum of the per-worker counters
GroupSum == SumTo(counters, LenCounters - 1)

\* the errors a gate wait returns
GateErrors == {Canceled, DeadlineExceeded, WouldExceed, BurstError}

\* the errors the workers' gate waits and callbacks have returned
Produced == {werr[i] : i \in Workers} \ {NilError}

\* ------------------------------------------------------------------- claims

C3_NewValidates ==
  runpc # "new" =>
    LET bad == \/ opts.Limit > 0 /\ opts.Limit < opts.Concurrency
               \/ opts.Limit = 0 /\ opts.Duration = 0
    IN /\ (newErr # "nil") <=> bad
       /\ bad => limiter = NoLimiter /\ runpc = "rejected"
       /\ ~bad => limiter = opts /\ newErr = "nil"

C3_Witness ==
  /\ runpc = "rejected"
  /\ opts.Limit = 1 /\ opts.Concurrency = 2
  /\ newErr = ErrLimit

\* C4: Run returns a non-nil error if and only if the gate-error or the
\* callback-error flag is set when it returns, and a non-nil return value is an
\* error that some worker's gate wait or callback produced.  (Stated for the
\* runs in which no gate wait failed with an error of its own: the errors
\* are the callback's.)
C4_ReturnIsAProducedError ==
  (runpc = "returned" /\ ~isRateError) =>
    /\ (~IsNil(runResult)) <=> (isRateError \/ isCallbackError)
    /\ ~IsNil(runResult) => runResult \in Produced

\* C5, as stated: with a callback that fails on every invocation, a run ends
\* with IsCallbackError() true, LastError() that failure, the aggregate count
\* equal to concurrency and a non-nil error from Run.  (Stated for the runs
\* with at least one worker and no gate error of the gate's own.)
C5_AlwaysFailingAsStated ==
  (/\ runpc = "returned" /\ limiter.Callback = "failing"
   /\ limiter.Concurrency >= 1 /\ ~isRateError) =>
    /\ isCallbackError
    /\ lastError = CbErr1
    /\ counters[0] = limiter.Concurrency
    /\ ~IsNil(runResult)

\* C5, amended: with a callback that fails on every invocation every worker
\* makes at most one invocation; when Run returns the aggregate count is the
\* number of workers the gate admitted, which is concurrency when no gate wait
\* failed; if a worker was admitted IsCallbackError() is true and Run returns a
\* non-nil error, and LastError() is that failure unless a gate error was
\* recorded too.
C5_AlwaysFailing ==
  (runpc = "returned" /\ limiter.Callback = "failing") =>
    /\ \A i \in Workers : counters[i] <= 1
    /\ counters[0] = Cardinality({i \in Workers : werr[i] = CbErr1})
    /\ (~isDeadline /\ ~isCanceled /\ ~isRateError) => counters[0] = limiter.Concurrency
    /\ counters[0] >= 1 => isCallbackError /\ ~IsNil(runResult)
    /\ (counters[0] >= 1 /\ ~isRateError) => lastError = CbErr1 /\ runResult = CbErr1

C5_Witness ==
  /\ runpc = "returned" /\ limiter.Callback = "failing"
  /\ limiter.Concurrency = 2
  /\ counters[0] = 2
  /\ isCallbackError /\ runResult = CbErr1

\* C6, as stated: if the context is canceled before any worker has completed
\* its first gate wait, then when Run returns IsCanceled() is true, the
\* aggregate count is zero and Run returns nil.  (Stated for the runs with at
\* least one worker and no gate error of the gate's own.)
C6_CancelBeforeFirstWaitAsStated ==
  (/\ runpc = "returned" /\ cancelAt \in {"beforeEnter", "inFlight"}
   /\ limiter.Concurrency >= 1 /\ ~isRateError) =>
    /\ isCanceled
    /\ counters[0] = 0
    /\ IsNil(runResult)

\* C6, amended: if there is at least one worker and the context is canceled
\* before any worker has entered its first gate wait, then when Run returns the
\* aggregate count is zero and, unless a gate wait failed with an error that is
\* not the context's, IsCanceled() is true and Run returns nil.
C6_CancelBeforeFirstWait ==
  (runpc = "returned" /\ cancelAt = "beforeEnter" /\ limiter.Concurrency >= 1) =>
    /\ counters[0] = 0
    /\ ~isRateError => isCanceled /\ IsNil(runResult)

C6_Witness ==
  /\ runpc = "returned" /\ cancelAt = "beforeEnter"
  /\ limiter.Concurrency = 2
  /\ isCanceled /\ ~isRateError /\ counters[0] = 0

\* C7: for a configuration with limit > 0 or duration > 0, under fair
\* scheduling of the workers and of the clock, every worker leaves its loop
\* and Run returns.
C7_RunTerminates ==
  (runpc = "running" /\ (limiter.Limit > 0 \/ limiter.Duration > 0))
    ~> (runpc = "returned" /\ AllExited)

\* The same for the configurations in which the counter cannot pass the limit
\* by wrapping around: a deadline, or limit + concurrency - 1 within the width.
C7_RunTerminatesWithoutWrap ==
  (/\ runpc = "running"
   /\ \/ limiter.Duration > 0
      \/ limiter.Limit > 0 /\ limiter.Limit + limiter.Concurrency - 1 < UintMod)
    ~> (runpc = "returned" /\ AllExited)

\* C8: Run returns only after every worker has left its loop, and once Run has
\* returned no counter, flag or last error changes.
C8_FrozenAfterReturn ==
  [][/\ runpc' = "returned" => AllExited'
     /\ runpc = "returned" => UNCHANGED <<counters, flagVars, lastError>>]_vars

C8_Witness ==
  /\ runpc = "returned"
  /\ limiter.Concurrency = 2
  /\ counters[0] >= 2
  /\ isCallbackError /\ isQueryLimit

\* C9: successive reads of Since() never decrease, and every read after Run
\* has returned gives the frozen value.
C9_SinceNeverDecreases ==
  [][/\ lastSince # -1 => lastSince' >= lastSince
     /\ (runpc = "returned" /\ lastSince' # lastSince) => lastSince' = since]_vars

\* C10: no two workers, and no worker and accessor caller, are at conflicting
\* unsynchronised accesses (one of them a write) to the same counter or flag.
\* (Stated for the runs without a gate error of the gate's own.)
C10_NoDataRace ==
  (\A k \in Workers : werr[k] # BurstError) =>
    \A i \in Workers : \A j \in Workers \ {i} :
      PlainWrites(i) \cap (PlainWrites(j) \cup PlainReads(j)) \cap Flags = {}

C12_LimitHitSkipsTheWork ==
  [][\A i \in Workers :
       /\ (pc[i] \in {"admit", "sleep"} /\ pc'[i] \notin {"admit", "sleep", "gateFail"})
            => /\ pc'[i] \in {"limitHit", "incOwn"}
               /\ pc'[i] = "limitHit" <=> (limiter.Limit > 0 /\ counters[0] >= limiter.Limit)
       /\ (pc[i] = "limitHit" /\ pc'[i] # "limitHit")
            => isQueryLimit' /\ pc'[i] = "wgDone" /\ counters' = counters
       /\ pc[i] \in {"limitHit", "wgDone", "exited"}
            => pc'[i] \in {"limitHit", "wgDone", "exited"} /\ counters'[i] = counters[i]]_vars

\* a worker left on the limit before its first invocation, the other did the work
C12_Witness ==
  /\ runpc = "returned" /\ limiter.Limit = 2 /\ limiter.Concurrency = 2
  /\ isQueryLimit /\ counters[0] = 2
  /\ \E i \in Workers : counters[i] = 0 /\ IsNil(werr[i])

\* C13: a worker whose gate wait failed leaves its loop without incrementing a
\* counter or invoking the callback, and sets exactly one flag: deadline for a
\* deadline-shaped error, canceled for a cancellation, gate-error for any other
\* error; only in the last case it stores the error to lastError.
C13_GateFailureClassified ==
  [][\A i \in Workers :
       /\ (pc[i] = "gateFail" /\ pc'[i] # "gateFail") =>
            /\ counters' = counters /\ lastError' = lastError
            /\ UNCHANGED <<isQueryLimit, isCallbackError>>
            /\ werr[i] \in {DeadlineExceeded, WouldExceed} =>
                 /\ isDeadline' /\ UNCHANGED <<isCanceled, isRateError>>
                 /\ pc'[i] = "wgDone"
            /\ werr[i] = Canceled =>
                 /\ isCanceled' /\ UNCHANGED <<isDeadline, isRateError>>
                 /\ pc'[i] = "wgDone"
            /\ werr[i] \notin {DeadlineExceeded, WouldExceed, Canceled} =>
                 /\ isRateError' /\ UNCHANGED <<isDeadline, isCanceled>>
                 /\ pc'[i] = "errType"
       /\ werr[i] \in GateErrors =>
            /\ pc'[i] \in {"gateFail", "errType", "errData", "wgDone", "exited"}
            /\ counters'[i] = counters[i]
            /\ pc'[i] # pc[i] => counters' = counters
       /\ (werr[i] \in {DeadlineExceeded, WouldExceed, Canceled} /\ pc'[i] # pc[i])
            => lastError' = lastError
       /\ (werr[i] = BurstError /\ pc[i] = "errType" /\ pc'[i] # pc[i])
            => lastError'.typ = BurstError.typ
       /\ (werr[i] = BurstError /\ pc[i] = "errData" /\ pc'[i] # pc[i])
            => lastError'.val = BurstError.val]_vars

\* a reservation that would outlast the deadline failed: the deadline flag alone
C13_Witness ==
  /\ runpc = "returned"
  /\ \E i \in Workers : werr[i] = WouldExceed /\ counters[i] = 0
  /\ isDeadline /\ ~isCanceled /\ ~isRateError /\ IsNil(lastError)

\* the callback invocations worker i has started: those made, and the one it
\* is at
StartedCalls(i) == calls[i] + (IF pc[i] = "callback" THEN 1 ELSE 0)

\* C14: the callback invocations worker i has started are at most counters[i],
\* those of all workers together are at most counters[0], and when Run returns
\* with a callback configured counters[0] is the number of invocations made.
C14_InvocationsCounted ==
  Started =>
    /\ \A i \in Workers : StartedCalls(i) <= counters[i]
    /\ SumTo([i \in Workers |-> StartedCalls(i)], Cardinality(Workers)) <= counters[0]
    /\ (runpc = "returned" /\ limiter.Callback # "nil")
         => counters[0] = SumTo(calls, Cardinality(Workers))

\* The same while fewer increments than the counters' width have been made.
C14_CountedBeforeWrap ==
  SumTo([i \in Workers |-> calls[i] + (IF pc[i] \in {"incTotal", "callback"} THEN 1 ELSE 0)],
        Cardinality(Workers)) < UintMod
    => C14_InvocationsCounted

\* C15: every counter is non-decreasing over the whole run: no step makes a
\* counter smaller than it was.
C15_CountersNeverDecrease ==
  [][Started => \A k \in DOMAIN counters : counters'[k] >= counters[k]]_vars

\* C16: a callback failure or gate failure stops that worker and only that
\* worker: the failed worker makes no further gate wait, increment or callback
\* invocation, no worker's step cancels the shared context or moves another
\* worker, and a worker leaves its loop only on its own failed gate wait, its
\* own limit check or its own failed callback.
C16_FailureStopsOnlyThatWorker ==
  [][\A i \in Workers :
       /\ ~IsNil(werr[i]) =>
            /\ pc'[i] \in {"gateFail", "cbFail", "errType", "errData", "wgDone", "exited"}
            /\ counters'[i] = counters[i]
            /\ pc'[i] # pc[i] => counters' = counters
       /\ pc'[i] # pc[i] =>
            /\ ctxErr' = ctxErr
            /\ \A j \in Workers \ {i} : pc'[j] = pc[j] /\ werr'[j] = werr[j]
       /\ (pc'[i] = "wgDone" /\ pc[i] # "wgDone") =>
            \/ pc[i] = "gateFail" /\ werr[i] \in GateErrors
            \/ pc[i] = "limitHit" /\ limiter.Limit > 0
            \/ pc[i] = "errData" /\ werr[i] \in GateErrors \cup {CbErr1, CbErr2}
       /\ pc'[i] = "exited" => pc[i] \in {"wgDone", "exited"}]_vars

\* one worker's callback failed and it left; the other went on invoking, on a
\* live context
C16_Witness ==
  /\ runpc = "running" /\ limiter.Concurrency = 2 /\ ctxErr = "nil"
  /\ pc[1] = "exited" /\ werr[1] = CbErr1 /\ counters[1] = 1
  /\ pc[2] = "callback" /\ counters[2] = 3

\* C17: each flag is set truthfully, in every state: query-limit implies
\* limit > 0 and counters[0] >= limit; callback-error implies a callback
\* returned a failure; canceled implies the context was canceled; deadline
\* implies a duration was configured; gate-error implies a gate wait returned
\* an error that is neither; lastError is non-nil iff gate-error or
\* callback-error is set.  (Stated for the runs without a gate error of the
\* gate's own.)
C17_FlagsTruthful ==
  (Started /\ \A k \in Workers : werr[k] # BurstError) =>
    /\ isQueryLimit => limiter.Limit > 0 /\ counters[0] >= limiter.Limit
    /\ isCallbackError => \E i \in Workers : werr[i] \in {CbErr1, CbErr2}
    /\ isCanceled => ctxErr = "canceled"
    /\ isDeadline => limiter.Duration > 0
    /\ isRateError => \E i \in Workers : werr[i] = BurstError
    /\ ~IsNil(lastError) <=> (isRateError \/ isCallbackError)

\* The query-limit part alone.
C17_QueryLimitTruthful ==
  (Started /\ isQueryLimit) => limiter.Limit > 0 /\ counters[0] >= limiter.Limit

\* The parts that hold in every state: the other four flags, a non-nil
\* lastError implies one of the two error flags, and the converse once the
\* workers have left.
C17_OtherFlagsTruthful ==
  Started =>
    /\ isQueryLimit => limiter.Limit > 0
    /\ isCallbackError => \E i \in Workers : werr[i] \in {CbErr1, CbErr2}
    /\ isCanceled => ctxErr = "canceled"
    /\ isDeadline => limiter.Duration > 0
    /\ isRateError => \E i \in Workers : werr[i] = BurstError
    /\ ~IsNil(lastError) => (isRateError \/ isCallbackError)
    /\ AllExited => (~IsNil(lastError) <=> (isRateError \/ isCallbackError))

\* the workers still in their loop
InLoop == {i \in Workers : pc[i] # "exited"}

\* C18: each worker calls wg.Done exactly once, when it leaves its loop (after
\* a failed gate wait, the limit check or a failed callback), and writes nothing
\* afterwards: the wait group's count is the number of workers still in their
\* loop, is never negative, and is zero only when all workers have left.
C18_DoneExactlyOnce ==
  [][Started =>
       /\ wg = Cardinality(InLoop) /\ wg >= 0
       /\ wg = 0 <=> AllExited
       /\ wg' # wg =>
            /\ wg' = wg - 1
            /\ \E i \in Workers :
                 /\ pc[i] = "wgDone" /\ pc'[i] = "exited"
                 /\ \A j \in Workers \ {i} : pc'[j] = pc[j]
            /\ UNCHANGED <<counters, flagVars, lastError>>
       /\ \A i \in Workers :
            /\ pc[i] = "exited" => pc'[i] = "exited"
            /\ (pc'[i] = "exited" /\ pc[i] # "exited") => wg' = wg - 1
            /\ (pc'[i] = "wgDone" /\ pc[i] # "wgDone")
                 => pc[i] \in {"gateFail", "limitHit", "errData"}]_vars

\* one of two workers has signalled and left, the other is still in its loop
C18_Witness ==
  /\ runpc = "running" /\ limiter.Concurrency = 2
  /\ wg = 1 /\ pc[1] = "exited" /\ pc[2] = "callback"

\* the workers between their two increments
BetweenIncrements == {i \in Workers : pc[i] = "incTotal"}

\* C19: the aggregate counter is at most the sum of the per-worker counters,
\* the sum is ahead by at most the number of workers between their two
\* increments, and the two are equal when no worker is between them, so also
\* when Run has returned.
C19_SumAheadByPendingIncrements ==
  Started =>
    /\ counters[0] <= GroupSum
    /\ GroupSum - counters[0] <= Cardinality(BetweenIncrements)
    /\ BetweenIncrements = {} => GroupSum = counters[0]

\* The same while fewer increments than the counters' width have been made
\* (with a callback, whose invocations are counted).
C19_SumAheadBeforeWrap ==
  (/\ Started
   /\ SumTo([i \in Workers |-> calls[i] + (IF pc[i] \in {"incTotal", "callback"} THEN 1 ELSE 0)],
            Cardinality(Workers)) < UintMod)
    => C19_SumAheadByPendingIncrements

\* C20: when Run returns with concurrency >= 1 at least one of the five flags
\* is set; with concurrency 0 Run need not wait for anything (wg.Wait returns
\* at once, whatever the duration) and returns with the five flags false, the
\* aggregate count zero and a nil error.
C20_SomeFlagAtReturn ==
  /\ (runpc = "returned" /\ limiter.Concurrency >= 1)
       => (isDeadline \/ isCanceled \/ isQueryLimit \/ isRateError \/ isCallbackError)
  /\ (runpc = "running" /\ limiter.Concurrency = 0) => ENABLED RunWait
  /\ (runpc = "returned" /\ limiter.Concurrency = 0)
       => /\ ~isDeadline /\ ~isCanceled /\ ~isQueryLimit /\ ~isRateError /\ ~isCallbackError
          /\ counters[0] = 0 /\ IsNil(runResult) /\ IsNil(lastError)

\* both workers left on the query limit: that flag alone is set at the return
C20_Witness ==
  /\ runpc = "returned" /\ limiter.Concurrency = 2
  /\ isQueryLimit
  /\ ~isDeadline /\ ~isCanceled /\ ~isRateError /\ ~isCallbackError

\* Run with no worker and a duration of one second has returned at once
C20_ReturnedAtOnce ==
  /\ runpc = "returned" /\ limiter.Concurrency = 0 /\ limiter.Duration = 1
  /\ elapsed = 0 /\ since = 0

====
